---- MODULE Spec2Model ----
(***************************************************************************)
(* Model of topiary-core/src/error.rs: the FormatterError taxonomy and its *)
(* Display, the ReportConversion impls that turn a report of an external   *)
(* failure into a report of a FormatterError, and the ErrorSpan built from *)
(* a NodeSpan and its Display.                                             *)
(*                                                                         *)
(* A report is the sequence of its nodes, outermost (current context)      *)
(* first; each node holds a context value and the attachments made to it.  *)
(* Text is a TLA+ string, numbers are formatted in decimal by ToString.    *)
(***************************************************************************)
EXTENDS Integers, Sequences, FiniteSets, TLC

VARIABLES
    report,     \* the report in flight, <<>> when there is none
    lastOp,     \* the operation that produced `report`
    error,      \* Display: the FormatterError being rendered, <<>> or <<e>>
    rendered,   \* Display: the text written to the formatter, <<>> or <<s>>
    nodeSpan,   \* the NodeSpan handed over by the parser side, <<>> or <<n>>
    span,       \* the ErrorSpan built from it, <<>> or <<s>>
    spanText    \* the text written by ErrorSpan's Display, <<>> or <<s>>

vars == <<report, lastOp, error, rendered, nodeSpan, span, spanText>>

----------------------------------------------------------------------------
(* Bounds *)

MaxChain == 3
MaxAttach == 2
MaxPayloadLen == 2

----------------------------------------------------------------------------
(* FormatterError and its Display *)

Idempotence == [type |-> "FormatterError", variant |-> "Idempotence", message |-> ""]
IdempotenceParsing == [type |-> "FormatterError", variant |-> "IdempotenceParsing", message |-> ""]
Internal(message) == [type |-> "FormatterError", variant |-> "Internal", message |-> message]
Parsing == [type |-> "FormatterError", variant |-> "Parsing", message |-> ""]
PatternDoesNotMatch == [type |-> "FormatterError", variant |-> "PatternDoesNotMatch", message |-> ""]
Query(message) == [type |-> "FormatterError", variant |-> "Query", message |-> message]
Io(message) == [type |-> "FormatterError", variant |-> "Io", message |-> message]

please_log_message ==
    "If this happened with the built-in query files, it is a bug. It would be\nhelpful if you logged this error at\nhttps://github.com/tweag/topiary/issues/new?assignees=&labels=type%3A+bug&template=bug_report.md"

\* Mutants of fmt: the payload arm split so that Internal gets the tail; the
\* tail left out of Idempotence.
fmt_internal_with_tail(self) ==
    CASE self.variant = "Idempotence" ->
            "The formatter did not produce the same\nresult when invoked twice (idempotence check).\n\n"
                \o please_log_message
      [] self.variant = "IdempotenceParsing" ->
            "The formatter produced invalid output and\nfailed when trying to format twice (idempotence check).\n\n"
                \o please_log_message
                \o "\n\nThe following is the error received when running the second time, but note\nthat any line and column numbers refer to the formatted code, not the\noriginal input. Run Topiary with the --skip-idempotence flag to see this\ninvalid formatted code."
      [] self.variant = "Parsing" ->
            "Tree-sitter could not parse the input without errors."
      [] self.variant = "PatternDoesNotMatch" ->
            "The query contains a pattern that does not match the input"
      [] self.variant = "Internal" -> self.message \o "\n\n" \o please_log_message
      [] self.variant \in {"Query", "Io"} -> self.message

fmt_idempotence_without_tail(self) ==
    CASE self.variant = "Idempotence" ->
            "The formatter did not produce the same\nresult when invoked twice (idempotence check)."
      [] self.variant = "IdempotenceParsing" ->
            "The formatter produced invalid output and\nfailed when trying to format twice (idempotence check).\n\n"
                \o please_log_message
                \o "\n\nThe following is the error received when running the second time, but note\nthat any line and column numbers refer to the formatted code, not the\noriginal input. Run Topiary with the --skip-idempotence flag to see this\ninvalid formatted code."
      [] self.variant = "Parsing" ->
            "Tree-sitter could not parse the input without errors."
      [] self.variant = "PatternDoesNotMatch" ->
            "The query contains a pattern that does not match the input"
      [] self.variant \in {"Internal", "Query", "Io"} -> self.message

\* impl fmt::Display for FormatterError
fmt(self) ==
    CASE self.variant = "Idempotence" ->
            "The formatter did not produce the same\nresult when invoked twice (idempotence check).\n\n"
                \o please_log_message
      [] self.variant = "IdempotenceParsing" ->
            "The formatter produced invalid output and\nfailed when trying to format twice (idempotence check).\n\n"
                \o please_log_message
                \o "\n\nThe following is the error received when running the second time, but note\nthat any line and column numbers refer to the formatted code, not the\noriginal input. Run Topiary with the --skip-idempotence flag to see this\ninvalid formatted code."
      [] self.variant = "Parsing" ->
            "Tree-sitter could not parse the input without errors."
      [] self.variant = "PatternDoesNotMatch" ->
            "The query contains a pattern that does not match the input"
      [] self.variant \in {"Internal", "Query", "Io"} -> self.message

----------------------------------------------------------------------------
(* Reports: context chain and attachments *)

\* Report::new: a report of one node, with no attachment
new_report(c) == << [ctx |-> c, attachments |-> <<>>] >>

\* Report::current_context
current_context(r) == r[1].ctx

\* Report::context: a new outermost node, the old report beneath it
context(r, c) == << [ctx |-> c, attachments |-> <<>>] >> \o r

\* Report::attach: the attachment is appended to the outermost node
attach(r, a) ==
    << [r[1] EXCEPT !.attachments = Append(@, a)] >> \o Tail(r)

\* Filename, Source, Language: the attachment types of this module
Filename(path) == [tag |-> "Filename", val |-> path]
Source(text) == [tag |-> "Source", val |-> text]
Language(name) == [tag |-> "Language", val |-> name]

----------------------------------------------------------------------------
(* The conversion layer *)

\* The external failure types with a ReportConversion impl
MacroTypes ==
    {"Utf8Error", "FromUtf8Error", "fmt::Error", "serde_json::Error",
     "LanguageError", "ParserError", "QueryError"}
ExternalTypes == MacroTypes \cup {"IntoInnerError", "io::Error"}

\* Mutant of report_conversion: the parser failure mapped to Parsing
report_conversion_parser_as_parsing(from) ==
    CASE from = "Utf8Error" -> Io("Input is not valid UTF-8")
      [] from = "FromUtf8Error" -> Io("Input is not valid UTF-8")
      [] from = "fmt::Error" -> Io("Failed to format output")
      [] from = "serde_json::Error" -> Io("Could not serialise JSON output")
      [] from = "LanguageError" -> Io("Error while loading language grammar")
      [] from = "ParserError" -> Parsing
      [] from = "QueryError" -> Query("Error parsing query file")

\* Mutant of report_conversion: the query failure filed under Io
report_conversion_query_as_io(from) ==
    CASE from = "Utf8Error" -> Io("Input is not valid UTF-8")
      [] from = "FromUtf8Error" -> Io("Input is not valid UTF-8")
      [] from = "fmt::Error" -> Io("Failed to format output")
      [] from = "serde_json::Error" -> Io("Could not serialise JSON output")
      [] from = "LanguageError" -> Io("Error while loading language grammar")
      [] from = "ParserError" -> Io("Error while parsing")
      [] from = "QueryError" -> Io("Error parsing query file")

\* The $context of each report_conversion! invocation
report_conversion(from) ==
    CASE from = "Utf8Error" -> Io("Input is not valid UTF-8")
      [] from = "FromUtf8Error" -> Io("Input is not valid UTF-8")
      [] from = "fmt::Error" -> Io("Failed to format output")
      [] from = "serde_json::Error" -> Io("Could not serialise JSON output")
      [] from = "LanguageError" -> Io("Error while loading language grammar")
      [] from = "ParserError" -> Io("Error while parsing")
      [] from = "QueryError" -> Query("Error parsing query file")

\* report_conversion!: convert_report of the generated impl
convert_report_macro(r) ==
    context(r, report_conversion(current_context(r).type))

\* ReportConversion<io::IntoInnerError<W>>::convert_report
convert_report_into_inner(r) ==
    context(r, Io("Cannot flush internal buffer"))

\* Mutant of convert_report_io: the branch taken on a different kind
convert_report_io_wrong_kind(r) ==
    LET msg == IF current_context(r).kind = "PermissionDenied"
               THEN "File not found"
               ELSE "Could not read or write to file"
    IN  context(r, Io(msg))

\* ReportConversion<io::Error>::convert_report
convert_report_io(r) ==
    LET msg == IF current_context(r).kind = "NotFound"
               THEN "File not found"
               ELSE "Could not read or write to file"
    IN  context(r, Io(msg))

\* Mutants of convert_report: the new error made into a fresh report, the
\* converted one dropped; the attachments of the converted report lost.
convert_report_fresh(r) ==
    LET t == current_context(r).type
    IN  CASE t \in MacroTypes -> new_report(report_conversion(t))
          [] t = "IntoInnerError" -> new_report(Io("Cannot flush internal buffer"))
          [] t = "io::Error" -> new_report(current_context(convert_report_io(r)))

convert_report_dropping_attachments(r) ==
    LET t == current_context(r).type
        bare == << [r[1] EXCEPT !.attachments = <<>>] >> \o Tail(r)
    IN  CASE t \in MacroTypes -> convert_report_macro(bare)
          [] t = "IntoInnerError" -> convert_report_into_inner(bare)
          [] t = "io::Error" -> convert_report_io(bare)

\* FormatterError::convert_report, the impl chosen by the type of the report
convert_report(r) ==
    LET t == current_context(r).type
    IN  CASE t \in MacroTypes -> convert_report_macro(r)
          [] t = "IntoInnerError" -> convert_report_into_inner(r)
          [] t = "io::Error" -> convert_report_io(r)

----------------------------------------------------------------------------
(* The report in flight: raised by a collaborator, attached to, converted,  *)
(* wrapped by the caller, dropped                                           *)

IoErrorKinds == {"NotFound", "PermissionDenied", "UnexpectedEof"}

\* What tells two failures of one type apart (a position, an OS message)
InstanceData == {"first", "second"}

ExternalFailures ==
    [type : ExternalTypes \ {"io::Error"}, kind : {"n/a"}, data : InstanceData]
        \cup [type : {"io::Error"}, kind : IoErrorKinds, data : InstanceData]

Attachments == {Filename("a.rs"), Source("fn f() {"), Language("rust")}

\* The errors a caller wraps a report in
CallerErrors == {Parsing, IdempotenceParsing, Internal("x")}

RECURSIVE TotalAttachments(_)
TotalAttachments(r) ==
    IF r = <<>> THEN 0 ELSE Len(r[1].attachments) + TotalAttachments(Tail(r))

Raise(e) ==
    /\ report = <<>>
    /\ report' = new_report(e)
    /\ lastOp' = "raise"
    /\ UNCHANGED <<error, rendered, nodeSpan, span, spanText>>

Attach(a) ==
    /\ report # <<>>
    /\ TotalAttachments(report) < MaxAttach
    /\ report' = attach(report, a)
    /\ lastOp' = "attach"
    /\ UNCHANGED <<error, rendered, nodeSpan, span, spanText>>

ConvertReport ==
    /\ report # <<>>
    /\ current_context(report).type \in ExternalTypes
    /\ Len(report) < MaxChain
    /\ report' = convert_report(report)
    /\ lastOp' = "convert_report"
    /\ UNCHANGED <<error, rendered, nodeSpan, span, spanText>>

Context(k) ==
    /\ report # <<>>
    /\ Len(report) < MaxChain
    /\ report' = context(report, k)
    /\ lastOp' = "context"
    /\ UNCHANGED <<error, rendered, nodeSpan, span, spanText>>

Drop ==
    /\ report # <<>>
    /\ report' = <<>>
    /\ lastOp' = "drop"
    /\ UNCHANGED <<error, rendered, nodeSpan, span, spanText>>

Init ==
    /\ report = <<>>
    /\ lastOp = "init"
    /\ error = <<>>
    /\ rendered = <<>>
    /\ nodeSpan = <<>>
    /\ span = <<>>
    /\ spanText = <<>>

Next ==
    \/ \E e \in ExternalFailures : Raise(e)
    \/ \E a \in Attachments : Attach(a)
    \/ ConvertReport
    \/ \E k \in CallerErrors : Context(k)
    \/ Drop

Spec == Init /\ [][Next]_vars

----------------------------------------------------------------------------
(* Display of a FormatterError: the value is built, then rendered           *)

\* The text units a caller's message is made of
Fragments == {"x", "\n", please_log_message}

RECURSIVE Payloads(_)
Payloads(n) ==
    IF n = 0 THEN {""}
    ELSE LET P == Payloads(n - 1)
         IN  P \cup {p \o f : p \in P, f \in Fragments}

\* The messages of the conversion layer
ConversionMessages ==
    {current_context(convert_report(new_report(e))).message : e \in ExternalFailures}

Messages == ConversionMessages \cup Payloads(MaxPayloadLen)

FormatterErrors ==
    {Idempotence, IdempotenceParsing, Parsing, PatternDoesNotMatch}
        \cup {Internal(m) : m \in Messages}
        \cup {Query(m) : m \in Messages}
        \cup {Io(m) : m \in Messages}

NewError(e) ==
    /\ error' = <<e>>
    /\ rendered' = <<>>
    /\ UNCHANGED <<report, lastOp, nodeSpan, span, spanText>>

Display ==
    /\ error # <<>>
    /\ rendered = <<>>
    /\ rendered' = <<fmt(error[1])>>
    /\ UNCHANGED <<report, lastOp, error, nodeSpan, span, spanText>>

DisplayNext ==
    \/ \E e \in FormatterErrors : NewError(e)
    \/ Display

DisplaySpec == Init /\ [][DisplayNext]_vars

----------------------------------------------------------------------------
(* ErrorSpan: built from the NodeSpan of a located failure, then rendered   *)

\* The texts that are parsed
Contents == {"", "fn f() {", "a\nb"}
Locations == {"a.rs"}
Languages == {"rust"}

\* The point (row, column) of a byte offset of a text, as the parser counts it
RECURSIVE PointAt(_, _)
PointAt(text, byte) ==
    IF byte = 0 THEN [row |-> 0, column |-> 0]
    ELSE LET p == PointAt(text, byte - 1)
         IN  IF SubSeq(text, byte, byte) = "\n"
             THEN [row |-> p.row + 1, column |-> 0]
             ELSE [row |-> p.row, column |-> p.column + 1]

\* The ranges of the nodes of a text
RangesOf(text) ==
    {[start_byte |-> b[1], end_byte |-> b[2],
      start_point |-> PointAt(text, b[1]), end_point |-> PointAt(text, b[2])] :
        b \in {c \in (0..Len(text)) \X (0..Len(text)) : c[1] <= c[2]}}

\* A NodeSpan is made from a node of a parsed text; its content and its
\* location are set afterwards, each or neither.
NodeSpans ==
    UNION {[range : RangesOf(text), content : {<<>>, <<text>>},
            location : {<<>>} \cup {<<l>> : l \in Locations},
            language : Languages] : text \in Contents}

\* Option::unwrap_or_default, of an Option<String>
unwrap_or_default(o) == IF o = <<>> THEN "" ELSE o[1]

\* NodeSpan::source_span
source_span(n) ==
    [offset |-> n.range.start_byte, length |-> n.range.end_byte - n.range.start_byte]

\* Mutant of ErrorSpan_from: the location used for the source text too
ErrorSpan_from_location_twice(n) ==
    [src |-> [name |-> unwrap_or_default(n.location),
              source |-> unwrap_or_default(n.location),
              language |-> n.language],
     span |-> source_span(n),
     range |-> n.range]

\* impl From<NodeSpan> for ErrorSpan
ErrorSpan_from(n) ==
    [src |-> [name |-> unwrap_or_default(n.location),
              source |-> unwrap_or_default(n.content),
              language |-> n.language],
     span |-> source_span(n),
     range |-> n.range]

\* Mutant of ErrorSpan_fmt: lines and columns counted from one
ErrorSpan_fmt_one_based(self) ==
    LET start == self.range.start_point
        end == self.range.end_point
    IN  "Parsing error between line " \o ToString(start.row + 1)
            \o ", column " \o ToString(start.column + 1)
            \o " and line " \o ToString(end.row + 1)
            \o ", column " \o ToString(end.column + 1)

\* impl Display for ErrorSpan
ErrorSpan_fmt(self) ==
    LET start == self.range.start_point
        end == self.range.end_point
    IN  "Parsing error between line " \o ToString(start.row)
            \o ", column " \o ToString(start.column)
            \o " and line " \o ToString(end.row)
            \o ", column " \o ToString(end.column)

Locate(n) ==
    /\ nodeSpan' = <<n>>
    /\ span' = <<>>
    /\ spanText' = <<>>
    /\ UNCHANGED <<report, lastOp, error, rendered>>

ErrorSpanFrom ==
    /\ nodeSpan # <<>>
    /\ span = <<>>
    /\ span' = <<ErrorSpan_from(nodeSpan[1])>>
    /\ UNCHANGED <<report, lastOp, error, rendered, nodeSpan, spanText>>

DisplaySpan ==
    /\ span # <<>>
    /\ spanText = <<>>
    /\ spanText' = <<ErrorSpan_fmt(span[1])>>
    /\ UNCHANGED <<report, lastOp, error, rendered, nodeSpan, span>>

SpanNext ==
    \/ \E n \in NodeSpans : Locate(n)
    \/ ErrorSpanFrom
    \/ DisplaySpan

SpanSpec == Init /\ [][SpanNext]_vars

----------------------------------------------------------------------------
(* Properties *)

Contains(m, t) ==
    \E i \in 1..(Len(m) - Len(t) + 1) : SubSeq(m, i, i + Len(t) - 1) = t

\* The bug-report tail, with the issue-tracker URL
BugReportTail ==
    "If this happened with the built-in query files, it is a bug. It would be\nhelpful if you logged this error at\nhttps://github.com/tweag/topiary/issues/new?assignees=&labels=type%3A+bug&template=bug_report.md"

HasTail(m) == Contains(m, BugReportTail)

ToolBugClass == {"Idempotence", "IdempotenceParsing", "Internal"}
PayloadVariants == {"Internal", "Query", "Io"}

\* The mapping table of the conversion layer, as specified
MappingTable(t) ==
    CASE t \in {"Utf8Error", "FromUtf8Error"} ->
            [variant |-> "Io", message |-> "Input is not valid UTF-8"]
      [] t = "fmt::Error" -> [variant |-> "Io", message |-> "Failed to format output"]
      [] t = "serde_json::Error" ->
            [variant |-> "Io", message |-> "Could not serialise JSON output"]
      [] t = "LanguageError" ->
            [variant |-> "Io", message |-> "Error while loading language grammar"]
      [] t = "ParserError" -> [variant |-> "Io", message |-> "Error while parsing"]
      [] t = "QueryError" -> [variant |-> "Query", message |-> "Error parsing query file"]
      [] t = "IntoInnerError" ->
            [variant |-> "Io", message |-> "Cannot flush internal buffer"]

\* C1: converting a report of any supported external type other than
\* io::Error gives a report whose outer value has exactly the variant and the
\* message of the mapping table, whatever the instance data and attachments.
C1_MappingTable ==
    [][(lastOp' = "convert_report" /\ current_context(report).type # "io::Error")
        => /\ current_context(report').type = "FormatterError"
           /\ current_context(report').variant
                = MappingTable(current_context(report).type).variant
           /\ current_context(report').message
                = MappingTable(current_context(report).type).message]_vars

C1_Witness ==
    /\ lastOp = "convert_report"
    /\ Len(report) = 2
    /\ report[2].ctx.type = "QueryError"
    /\ report[2].ctx.data = "second"
    /\ report[1].ctx = Query("Error parsing query file")

\* C2: converting a report of an io::Error gives Io("File not found") when
\* the kind is NotFound and Io("Could not read or write to file") for every
\* other kind, whatever else the error and the report hold.
C2_IoBranch ==
    [][(lastOp' = "convert_report" /\ current_context(report).type = "io::Error")
        => current_context(report')
             = [type |-> "FormatterError", variant |-> "Io",
                message |-> IF current_context(report).kind = "NotFound"
                            THEN "File not found"
                            ELSE "Could not read or write to file"]]_vars

C2_Witness ==
    /\ lastOp = "convert_report"
    /\ Len(report) = 2
    /\ report[2].ctx.type = "io::Error"
    /\ report[2].ctx.kind = "PermissionDenied"
    /\ report[2].attachments # <<>>
    /\ report[1].ctx = Io("Could not read or write to file")

\* C3: a conversion or a context wrap lengthens the chain by exactly one
\* link, with a taxonomy value outermost and every earlier error beneath it
\* in its earlier order; so the original failure stays the last of the chain
\* and every later error is a taxonomy value, most recent first.
C3_ChainPreserved ==
    /\ [](report # <<>>
            => /\ report[Len(report)].ctx.type \in ExternalTypes
               /\ \A i \in 1..(Len(report) - 1) : report[i].ctx.type = "FormatterError")
    /\ [][(lastOp' \in {"convert_report", "context"})
            => /\ Len(report') = Len(report) + 1
               /\ current_context(report').type = "FormatterError"
               /\ \A i \in 1..Len(report) : report'[i + 1].ctx = report[i].ctx]_vars

C3_Witness ==
    /\ lastOp = "context"
    /\ Len(report) = 3
    /\ report[3].ctx.type = "Utf8Error"
    /\ report[2].ctx = Io("Input is not valid UTF-8")
    /\ report[1].ctx = IdempotenceParsing

\* C9: convert_report is defined on every report of a supported external
\* type and returns a report of a taxonomy value; the report it was given,
\* its error value and each node's attachments in their order, is the chain
\* beneath the new outermost value.
C9_TotalAndPreserving ==
    /\ []((report # <<>> /\ current_context(report).type \in ExternalTypes)
            => /\ Len(convert_report(report)) >= 1
               /\ current_context(convert_report(report)).type = "FormatterError")
    /\ [][(lastOp' = "convert_report")
            => /\ report' # <<>>
               /\ Tail(report') = report]_vars

C9_Witness ==
    /\ lastOp = "convert_report"
    /\ Len(report) = 2
    /\ report[2].ctx.type = "IntoInnerError"
    /\ report[2].attachments = <<Source("fn f() {"), Filename("a.rs")>>

\* C10: the outer value of a conversion is Io or Query, never Idempotence,
\* IdempotenceParsing, Internal, Parsing or PatternDoesNotMatch; its rendered
\* message has no bug-report tail; Query comes only from a QueryError.
C10_OnlyIoOrQuery ==
    [][(lastOp' = "convert_report")
        => /\ current_context(report').variant \in {"Io", "Query"}
           /\ ~HasTail(fmt(current_context(report')))
           /\ (current_context(report').variant = "Query"
                 <=> current_context(report).type = "QueryError")]_vars

C10_Witness ==
    /\ lastOp = "convert_report"
    /\ report[2].ctx.type = "ParserError"
    /\ report[1].ctx.variant = "Io"

\* C4 as stated: the rendered message has the bug-report tail exactly when
\* the variant is Idempotence, IdempotenceParsing or Internal.
C4_TailIffToolBugClass ==
    rendered # <<>>
        => (HasTail(rendered[1]) <=> error[1].variant \in ToolBugClass)

\* C4 amended: the rendered message of Idempotence and of IdempotenceParsing
\* has the bug-report tail, that of Parsing and of PatternDoesNotMatch has
\* not, and that of Internal, Query and Io has it only when the payload has.
C4_TailIffIdempotenceOrPayload ==
    rendered # <<>>
        => (HasTail(rendered[1])
              <=> \/ error[1].variant \in {"Idempotence", "IdempotenceParsing"}
                  \/ /\ error[1].variant \in PayloadVariants
                     /\ HasTail(error[1].message))

C4_Witness ==
    /\ error = <<Idempotence>>
    /\ rendered # <<>>
    /\ HasTail(rendered[1])

\* C5: rendering Internal(x), Query(x) and Io(x) gives exactly x.
C5_PayloadPassthrough ==
    (rendered # <<>> /\ error[1].variant \in PayloadVariants)
        => rendered[1] = error[1].message

C5_Witness ==
    /\ error = <<Internal("x")>>
    /\ rendered = <<"x">>

\* C6: rendering an ErrorSpan gives "Parsing error between line R1, column
\* C1 and line R2, column C2" with the zero-based rows and columns of the
\* range of the NodeSpan it was built from, whatever the name and the text.
C6_SpanRendering ==
    spanText # <<>>
        => spanText[1]
             = "Parsing error between line "
                 \o ToString(nodeSpan[1].range.start_point.row)
                 \o ", column " \o ToString(nodeSpan[1].range.start_point.column)
                 \o " and line " \o ToString(nodeSpan[1].range.end_point.row)
                 \o ", column " \o ToString(nodeSpan[1].range.end_point.column)

C6_Witness ==
    /\ nodeSpan # <<>>
    /\ nodeSpan[1].location = <<"a.rs">>
    /\ nodeSpan[1].content = <<"fn f() {">>
    /\ nodeSpan[1].range.start_byte = 0
    /\ nodeSpan[1].range.end_byte = 8
    /\ spanText = <<"Parsing error between line 0, column 0 and line 0, column 8">>

\* C7: an ErrorSpan can be built from every NodeSpan; it stores the empty
\* string for an absent name or content, the given value for a present one,
\* and the range unchanged.
C7_SpanConstruction ==
    /\ (nodeSpan # <<>> /\ span = <<>>) => ENABLED ErrorSpanFrom
    /\ span # <<>>
         => /\ span[1].src.name
                 = (IF nodeSpan[1].location = <<>> THEN "" ELSE nodeSpan[1].location[1])
            /\ span[1].src.source
                 = (IF nodeSpan[1].content = <<>> THEN "" ELSE nodeSpan[1].content[1])
            /\ span[1].range = nodeSpan[1].range

C7_Witness ==
    /\ nodeSpan # <<>>
    /\ span # <<>>
    /\ nodeSpan[1].location = <<>>
    /\ nodeSpan[1].content = <<>>
    /\ span[1].src.name = ""
    /\ span[1].src.source = ""
    /\ span[1].range.end_point.row = 1

\* C8 as stated: the highlighted byte range of every ErrorSpan lies within
\* the source text it stores.
C8_SpanWithinSource ==
    span # <<>>
        => span[1].span.offset + span[1].span.length <= Len(span[1].src.source)

====
